---- MODULE Spec2Model ----
(***************************************************************************)
(* A model of the twelve_data client: the dispatcher TwelveData::send, the *)
(* query-string encoding of the request types, and the two custom field    *)
(* decoders (TdDateTimeVisitor, TdRangeVisitor).                           *)
(*                                                                         *)
(* Texts are sequences of one-character strings, so that the decoders work *)
(* on the characters of their input as the code does.                      *)
(***************************************************************************)
EXTENDS Integers, Sequences, FiniteSets, TLC

VARIABLES
    td,       \* the TwelveData value: [api_key, client]
    pc,       \* per call: "start", "awaiting" (inside client.get), "replied", "done"
    req,      \* per call: the request handed to time_series/quote/price/logo
    sent,     \* per call: the sequence of (url, api_key) pairs given to HttpClient::get
    reply,    \* per call: what HttpClient::get returned to it (NoReply before)
    result,   \* per call: the value the call returned (NoResult before)
    encReq,   \* request encoding: the request being serialized
    encOut,   \* request encoding: the pairs of the query string (Pending before)
    dtIn,     \* datetime decoder: the text given to visit_str
    dtOut,    \* datetime decoder: its result (Pending before)
    rgIn,     \* range decoder: the text given to visit_str
    rgOut     \* range decoder: its result (Pending before)

vars == <<td, pc, req, sent, reply, result, encReq, encOut, dtIn, dtOut, rgIn, rgOut>>

dispatchVars == <<td, pc, req, sent, reply, result>>
encVars == <<encReq, encOut>>
dtVars == <<dtIn, dtOut>>
rgVars == <<rgIn, rgOut>>

Pending == [ok |-> FALSE, pending |-> TRUE]

Err(kind) == [ok |-> FALSE, kind |-> kind]

(***************************************************************************)
(* Characters and texts.                                                   *)
(***************************************************************************)
Digits == <<"0", "1", "2", "3", "4", "5", "6", "7", "8", "9">>

IsDigit(c) == \E i \in 1..Len(Digits) : Digits[i] = c

DigitVal(c) == (CHOOSE i \in 1..Len(Digits) : Digits[i] = c) - 1

IsSpace(c) == c = " "

Drop(s, n) == SubSeq(s, n + 1, Len(s))

RECURSIVE TrimLeft(_)
TrimLeft(s) == IF s # <<>> /\ IsSpace(Head(s)) THEN TrimLeft(Tail(s)) ELSE s

(***************************************************************************)
(* chrono's parser, as NaiveDateTime::parse_from_str and                   *)
(* NaiveDate::parse_from_str run it for the two formats of visit_str.      *)
(***************************************************************************)
NumItem(f, w, sg) == [it |-> "num", field |-> f, width |-> w, signed |-> sg]

LitItem(c) == [it |-> "lit", ch |-> c]

SpaceItem == [it |-> "space"]

\* "%Y-%m-%d"
DateFormat ==
    <<NumItem("year", 4, TRUE), LitItem("-"), NumItem("month", 2, FALSE),
      LitItem("-"), NumItem("day", 2, FALSE)>>

\* "%Y-%m-%d %H:%M:%S"
DateTimeFormat ==
    DateFormat \o
    <<SpaceItem, NumItem("hour", 2, FALSE), LitItem(":"),
      NumItem("minute", 2, FALSE), LitItem(":"), NumItem("second", 2, FALSE)>>

RECURSIVE ScanDigits(_, _, _, _)
ScanDigits(s, used, max, n) ==
    IF used < max /\ used < Len(s) /\ IsDigit(s[used + 1])
    THEN ScanDigits(s, used + 1, max, n * 10 + DigitVal(s[used + 1]))
    ELSE [used |-> used, n |-> n]

\* scan::number(s, min, max): between min and max leading digits
ScanNumber(s, min, max) ==
    IF Len(s) < min THEN Err("TooShort")
    ELSE LET r == ScanDigits(s, 0, max, 0)
         IN  IF r.used < min THEN Err("Invalid")
             ELSE [ok |-> TRUE, rest |-> Drop(s, r.used), n |-> r.n]

\* a numeric item: leading whitespace skipped; a signed item takes an explicit
\* sign and then any number of digits
ScanNumeric(s, item) ==
    LET t == TrimLeft(s)
    IN  IF item.signed /\ t # <<>> /\ t[1] \in {"-", "+"}
        THEN LET r == ScanNumber(Tail(t), 1, Len(t))
             IN  IF r.ok /\ t[1] = "-" THEN [r EXCEPT !.n = 0 - r.n] ELSE r
        ELSE ScanNumber(t, 1, item.width)

NoFields == [f \in {} |-> 0]

RECURSIVE ParseItems(_, _, _)
ParseItems(s, items, parsed) ==
    IF items = <<>>
    THEN IF s # <<>> THEN Err("TooLong") ELSE [ok |-> TRUE, parsed |-> parsed]
    ELSE LET item == Head(items)
         IN  CASE item.it = "lit" ->
                    IF Len(s) < 1 THEN Err("TooShort")
                    ELSE IF s[1] # item.ch THEN Err("Invalid")
                    ELSE ParseItems(Tail(s), Tail(items), parsed)
               [] item.it = "space" ->
                    ParseItems(TrimLeft(s), Tail(items), parsed)
               [] item.it = "num" ->
                    LET r == ScanNumeric(s, item)
                    IN  IF r.ok
                        THEN ParseItems(r.rest, Tail(items),
                                        (item.field :> r.n) @@ parsed)
                        ELSE r

IsLeapYear(y) == y % 4 = 0 /\ (y % 100 # 0 \/ y % 400 = 0)

DaysInMonth(y, m) ==
    IF m = 2 THEN (IF IsLeapYear(y) THEN 29 ELSE 28)
    ELSE IF m \in {4, 6, 9, 11} THEN 30 ELSE 31

\* Parsed::to_naive_date
ToNaiveDate(p) ==
    IF /\ p.year \in -262143..262142
       /\ p.month \in 1..12
       /\ p.day \in 1..DaysInMonth(p.year, p.month)
    THEN [ok |-> TRUE, val |-> [year |-> p.year, month |-> p.month, day |-> p.day]]
    ELSE Err("OutOfRange")

\* Parsed::to_naive_time: second 60 is a leap second, kept as 59 with the
\* nanosecond field past one second
ToNaiveTime(p) ==
    IF p.hour \in 0..23 /\ p.minute \in 0..59 /\ p.second \in 0..60
    THEN [ok |-> TRUE,
          val |-> [hour |-> p.hour, minute |-> p.minute,
                   second |-> IF p.second = 60 THEN 59 ELSE p.second,
                   leap |-> p.second = 60]]
    ELSE Err("OutOfRange")

\* NaiveDate::and_hms
AndHms(d, h, m, s) ==
    [year |-> d.year, month |-> d.month, day |-> d.day,
     hour |-> h, minute |-> m, second |-> s, leap |-> FALSE]

\* a date and a time of day as one NaiveDateTime
DateAndTime(d, t) ==
    [year |-> d.year, month |-> d.month, day |-> d.day, hour |-> t.hour,
     minute |-> t.minute, second |-> t.second, leap |-> t.leap]

\* Parsed::to_naive_datetime_with_offset
ToNaiveDateTime(d, t) ==
    IF ~d.ok THEN d ELSE IF ~t.ok THEN t
    ELSE [ok |-> TRUE, val |-> DateAndTime(d.val, t.val)]

\* NaiveDateTime::parse_from_str(v, "%Y-%m-%d %H:%M:%S")
NaiveDateTimeParse(v) ==
    LET Finish(r) ==
            IF ~r.ok THEN r
            ELSE ToNaiveDateTime(ToNaiveDate(r.parsed), ToNaiveTime(r.parsed))
    IN  Finish(ParseItems(v, DateTimeFormat, NoFields))

\* NaiveDate::parse_from_str(v, "%Y-%m-%d")
NaiveDateParse(v) ==
    LET Finish(r) == IF ~r.ok THEN r ELSE ToNaiveDate(r.parsed)
    IN  Finish(ParseItems(v, DateFormat, NoFields))

(***************************************************************************)
(* TdDateTimeVisitor::visit_str.                                           *)
(***************************************************************************)
\* the decode error of visit_str: the format string has two places, the text
\* and one parse error; the inner `e` shadows the outer one
DateTimeError(v, eFull, eDate) ==
    [ok |-> FALSE, text |-> v, failures |-> <<eDate>>]

\* the result of the date-only branch
DateOnlyValue(nd) == AndHms(nd, 0, 0, 0)

\* a mutant of visit_str: no second attempt with the date-only format
VisitStrDateTimeFullOnly(v) ==
    LET First(full) ==
            IF full.ok THEN [ok |-> TRUE, val |-> full.val]
            ELSE DateTimeError(v, full.kind, full.kind)
    IN  First(NaiveDateTimeParse(v))

VisitStrDateTime(v) ==
    LET Second(full, date) ==
            IF date.ok THEN [ok |-> TRUE, val |-> DateOnlyValue(date.val)]
            ELSE DateTimeError(v, full.kind, date.kind)
        First(full) ==
            IF full.ok THEN [ok |-> TRUE, val |-> full.val]
            ELSE Second(full, NaiveDateParse(v))
    IN  First(NaiveDateTimeParse(v))

(***************************************************************************)
(* f64::from_str on decimal texts (sign, digits, point, digits).  The      *)
(* value is kept as an exact decimal: sign, integer part and the digits    *)
(* of the fraction without trailing zeros.  Exponents and the inf/nan      *)
(* words use letters that no text of this model holds.                     *)
(***************************************************************************)
RECURSIVE StripTrailingZeros(_)
StripTrailingZeros(ds) ==
    IF ds # <<>> /\ ds[Len(ds)] = 0
    THEN StripTrailingZeros(SubSeq(ds, 1, Len(ds) - 1))
    ELSE ds

\* the digits of a fraction as numbers
FracDigits(text, n) ==
    StripTrailingZeros([i \in 1..n |-> DigitVal(text[i])])

ParseF64(s) ==
    LET Fraction(neg, ip, fracText, fp) ==
            IF ip.used + fp.used = 0 \/ fp.used < Len(fracText)
            THEN Err("Invalid")
            ELSE [ok |-> TRUE,
                  val |-> [neg |-> neg, int |-> ip.n,
                           frac |-> FracDigits(fracText, fp.used)]]
        Point(neg, ip, afterInt) ==
            LET AfterPoint(fracText) ==
                    Fraction(neg, ip, fracText,
                             ScanDigits(fracText, 0, Len(fracText), 0))
            IN  AfterPoint(IF afterInt # <<>> /\ afterInt[1] = "."
                           THEN Tail(afterInt) ELSE afterInt)
        Integer(neg, body) ==
            LET AfterInt(ip) == Point(neg, ip, Drop(body, ip.used))
            IN  AfterInt(ScanDigits(body, 0, Len(body), 0))
    IN  IF s = <<>> THEN Err("Empty")
        ELSE Integer(s[1] = "-", IF s[1] \in {"-", "+"} THEN Tail(s) ELSE s)

(***************************************************************************)
(* TdRangeVisitor::visit_str.                                              *)
(***************************************************************************)
RangeSeparator == <<" ", "-", " ">>

Occurrences(s, pat) ==
    {i \in 0..(Len(s) - Len(pat)) : SubSeq(s, i + 1, i + Len(pat)) = pat}

\* a mutant of Find: the last match
FindLast(s, pat) ==
    LET occ == Occurrences(s, pat)
    IN  IF occ = {} THEN [some |-> FALSE]
        ELSE [some |-> TRUE, idx |-> CHOOSE i \in occ : \A j \in occ : j <= i]

\* str::find: the byte offset of the first match, or None
Find(s, pat) ==
    LET occ == Occurrences(s, pat)
    IN  IF occ = {} THEN [some |-> FALSE]
        ELSE [some |-> TRUE, idx |-> CHOOSE i \in occ : \A j \in occ : i <= j]

RangeError(which, kind) == [ok |-> FALSE, msg |-> which, cause |-> kind]

VisitStrRange(v) ==
    LET Parsed(lo, hi) ==
            IF ~lo.ok
            THEN RangeError("failed to parse the first range value", lo.kind)
            ELSE IF ~hi.ok
            THEN RangeError("failed to parse the second range value", hi.kind)
            ELSE [ok |-> TRUE, val |-> [start |-> lo.val, end |-> hi.val]]
        Split(found) ==
            IF ~found.some
            THEN RangeError("couldn't find the range separator", "None")
            ELSE Parsed(ParseF64(SubSeq(v, 1, found.idx)),
                        ParseF64(Drop(Drop(v, found.idx), 3)))
    IN  Split(Find(v, RangeSeparator))

(***************************************************************************)
(* The request types and their serialization by serde_urlencoded.  A       *)
(* struct is a list of fields in declaration order; each names its wire    *)
(* key (serde's rename) and whether it is an Option, or the flattened      *)
(* CommonQueryParameters.  A query string is the sequence of its           *)
(* key=value pairs.                                                        *)
(***************************************************************************)
None == [some |-> FALSE]

Some(x) == [some |-> TRUE, v |-> x]

Field(name, key, kind) == [name |-> name, key |-> key, kind |-> kind]

CommonQueryParametersFields ==
    <<Field("exchange", "exchange", "opt"),
      Field("mic_code", "mic_code", "opt"),
      Field("country", "country", "opt"),
      Field("instrument_type", "type", "opt"),
      Field("format", "format", "opt"),
      Field("delimiter", "delimiter", "opt"),
      Field("decimal_places", "dp", "opt"),
      Field("timezone", "timezone", "opt")>>

TimeSeriesRequestFields ==
    <<Field("common", "common", "flatten"),
      Field("symbol", "symbol", "req"),
      Field("interval", "interval", "req"),
      Field("output_size", "outputsize", "opt"),
      Field("order", "order", "opt"),
      Field("start_date", "start_date", "opt"),
      Field("end_date", "end_date", "opt"),
      Field("previous_close", "previous_close", "opt")>>

QuoteRequestFields ==
    <<Field("common", "common", "flatten"),
      Field("symbol", "symbol", "req"),
      Field("interval", "interval", "req"),
      Field("volume_time_period", "volume_time_period", "opt"),
      Field("end_of_day", "eod", "opt"),
      Field("rolling_period", "rolling_period", "opt")>>

PriceRequestFields ==
    <<Field("common", "common", "flatten"),
      Field("symbol", "symbol", "req"),
      Field("output_size", "outputsize", "opt"),
      Field("order", "order", "opt"),
      Field("start_date", "start_date", "opt"),
      Field("end_date", "end_date", "opt"),
      Field("previous_close", "previous_close", "opt")>>

LogoRequestFields ==
    <<Field("symbol", "symbol", "req"),
      Field("exchange", "exchange", "req"),
      Field("mic_code", "mic_code", "req"),
      Field("country", "country", "req")>>

\* the endpoint of each public method and the request type it takes
Endpoints == {"time_series", "quote", "price", "logo"}

RequestFields(endpoint) ==
    CASE endpoint = "time_series" -> TimeSeriesRequestFields
      [] endpoint = "quote" -> QuoteRequestFields
      [] endpoint = "price" -> PriceRequestFields
      [] endpoint = "logo" -> LogoRequestFields

\* Interval's serde names
IntervalName(variant) ==
    CASE variant = "Minute" -> "1min"
      [] variant = "FiveMinutes" -> "5min"
      [] variant = "FifteenMinutes" -> "15min"
      [] variant = "ThirtyMinutes" -> "30min"
      [] variant = "FortyFiveMinutes" -> "45min"
      [] variant = "Hour" -> "1h"
      [] variant = "TwoHours" -> "2h"
      [] variant = "FourHours" -> "4h"
      [] variant = "Day" -> "1day"
      [] variant = "Week" -> "1week"
      [] variant = "Month" -> "1month"

\* the text a value serializes to: a string as it is, a unit variant as its
\* serde name, a number in decimal, a bool as true/false
ValueText(x) ==
    CASE x.ty = "str" -> x.s
      [] x.ty = "Interval" -> IntervalName(x.variant)
      [] x.ty = "enum" -> x.variant
      [] x.ty = "int" -> ToString(x.n)
      [] x.ty = "bool" -> IF x.b THEN "true" ELSE "false"
      [] x.ty = "datetime" -> x.iso

\* a mutant of SerializeOption: None written as the key with an empty value
SerializeOptionAsEmpty(key, o) ==
    IF o.some THEN <<<<key, ValueText(o.v)>>>> ELSE <<<<key, "">>>>

\* an Option field: None writes nothing, Some(x) writes x
SerializeOption(key, o) ==
    IF o.some THEN <<<<key, ValueText(o.v)>>>> ELSE <<>>

RECURSIVE SerializeStruct(_, _)
SerializeStruct(fields, val) ==
    IF fields = <<>> THEN <<>>
    ELSE LET f == Head(fields)
             here == CASE f.kind = "flatten" ->
                            SerializeStruct(CommonQueryParametersFields, val[f.name])
                       [] f.kind = "opt" -> SerializeOption(f.key, val[f.name])
                       [] f.kind = "req" -> <<<<f.key, ValueText(val[f.name])>>>>
         IN  here \o SerializeStruct(Tail(fields), val)

\* serde_urlencoded::to_string(req)
ToQueryString(r) == SerializeStruct(RequestFields(r.endpoint), r.val)

(***************************************************************************)
(* Request values: every optional field is either absent or holds the      *)
(* sample value of its type.                                               *)
(***************************************************************************)
Str(t) == [ty |-> "str", s |-> t]

SampleValue(name) ==
    CASE name = "symbol" -> Str("TSLA")
      [] name = "exchange" -> Str("NASDAQ")
      [] name = "mic_code" -> Str("XNGS")
      [] name = "country" -> Str("US")
      [] name = "delimiter" -> Str(";")
      [] name = "timezone" -> Str("UTC")
      [] name = "interval" -> [ty |-> "Interval", variant |-> "Day"]
      [] name = "instrument_type" -> [ty |-> "enum", variant |-> "Stock"]
      [] name = "format" -> [ty |-> "enum", variant |-> "JSON"]
      [] name = "order" -> [ty |-> "enum", variant |-> "DESC"]
      [] name = "decimal_places" -> [ty |-> "int", n |-> 2]
      [] name = "output_size" -> [ty |-> "int", n |-> 10]
      [] name = "volume_time_period" -> [ty |-> "int", n |-> 9]
      [] name = "rolling_period" -> [ty |-> "int", n |-> 24]
      [] name = "previous_close" -> [ty |-> "bool", b |-> TRUE]
      [] name = "end_of_day" -> [ty |-> "bool", b |-> FALSE]
      [] name = "start_date" -> [ty |-> "datetime", iso |-> "2022-09-01T00:00:00"]
      [] name = "end_date" -> [ty |-> "datetime", iso |-> "2022-09-20T16:00:00"]

FieldNames(fields, kind) ==
    {fields[i].name : i \in {j \in 1..Len(fields) : fields[j].kind = kind}}

\* the struct value whose present optional fields are `present`
StructValue(fields, present) ==
    LET required == FieldNames(fields, "req")
        optional == FieldNames(fields, "opt")
    IN  [n \in required \cup optional |->
            IF n \in required THEN SampleValue(n)
            ELSE IF n \in present THEN Some(SampleValue(n)) ELSE None]

RequestValue(endpoint, present, commonPresent) ==
    LET fields == RequestFields(endpoint)
        own == StructValue(fields, present)
    IN  [endpoint |-> endpoint,
         val |-> IF FieldNames(fields, "flatten") = {} THEN own
                 ELSE ("common" :>
                         StructValue(CommonQueryParametersFields, commonPresent))
                      @@ own]

OptionalNames(endpoint) == FieldNames(RequestFields(endpoint), "opt")

\* the optional fields of the flattened CommonQueryParameters, if any
CommonOptionalNames(endpoint) ==
    IF FieldNames(RequestFields(endpoint), "flatten") = {} THEN {}
    ELSE FieldNames(CommonQueryParametersFields, "opt")

(***************************************************************************)
(* JSON values (serde_json::Value) and the decoding of a value into the    *)
(* response types (serde_json::from_value).  An object is a function from  *)
(* its keys to values.                                                     *)
(***************************************************************************)
JString(s) == [t |-> "string", s |-> s]

JNumber(n) == [t |-> "number", n |-> n]

JBool(b) == [t |-> "bool", b |-> b]

JNull == [t |-> "null"]

JArray(items) == [t |-> "array", items |-> items]

JObject(f) == [t |-> "object", f |-> f]

\* Value::get(key): the member of an object, None for anything else
Get(val, key) ==
    IF val.t = "object" /\ key \in DOMAIN val.f THEN Some(val.f[key]) ELSE None

\* a field of a response type: its key, its type, whether #[serde(default)]
RField(key, ty, dflt) == [key |-> key, ty |-> ty, dflt |-> dflt]

TimeSeriesResponseFields ==
    <<RField("meta", "TimeSeriesMeta", FALSE),
      RField("status", "String", FALSE),
      RField("values", "VecTimeSeriesQuote", FALSE)>>

TimeSeriesMetaFields ==
    <<RField("symbol", "String", FALSE),
      RField("interval", "Interval", FALSE),
      RField("currency", "String", FALSE),
      RField("exchange_timezone", "String", FALSE),
      RField("exchange", "String", FALSE),
      RField("mic_code", "String", FALSE),
      RField("type", "String", FALSE)>>

TimeSeriesQuoteFields ==
    <<RField("datetime", "TdDateTime", FALSE),
      RField("open", "DisplayFromStr", FALSE),
      RField("high", "DisplayFromStr", FALSE),
      RField("low", "DisplayFromStr", FALSE),
      RField("close", "DisplayFromStr", FALSE),
      RField("volume", "DisplayFromStr", FALSE)>>

QuoteResponseFields ==
    <<RField("symbol", "String", FALSE),
      RField("name", "String", FALSE),
      RField("exchange", "String", FALSE),
      RField("mic_code", "String", FALSE),
      RField("currency", "String", FALSE),
      RField("timestamp", "i64", FALSE),
      RField("datetime", "TdDateTime", FALSE),
      RField("open", "DisplayFromStr", FALSE),
      RField("high", "DisplayFromStr", FALSE),
      RField("low", "DisplayFromStr", FALSE),
      RField("close", "DisplayFromStr", FALSE),
      RField("volume", "DisplayFromStr", FALSE),
      RField("previous_close", "DisplayFromStr", FALSE),
      RField("change", "DisplayFromStr", FALSE),
      RField("percent_change", "DisplayFromStr", FALSE),
      RField("average_volume", "DisplayFromStr", FALSE),
      RField("rolling_1d_change", "OptionDisplayFromStr", TRUE),
      RField("rolling_7d_change", "OptionDisplayFromStr", TRUE),
      RField("rolling_period_change", "OptionDisplayFromStr", TRUE),
      RField("is_market_open", "bool", TRUE),
      RField("fifty_two_week", "FiftyTwoWeekStats", TRUE)>>

FiftyTwoWeekStatsFields ==
    <<RField("low", "DisplayFromStr", FALSE),
      RField("high", "DisplayFromStr", FALSE),
      RField("low_change", "DisplayFromStr", FALSE),
      RField("high_change", "DisplayFromStr", FALSE),
      RField("low_change_percent", "DisplayFromStr", FALSE),
      RField("high_change_percent", "DisplayFromStr", FALSE),
      RField("range", "TdRange", FALSE)>>

PriceResponseFields == <<RField("price", "DisplayFromStr", FALSE)>>

LogoResponseFields == <<RField("url", "String", FALSE)>>

\* the response type of each endpoint's method
ResponseType(endpoint) ==
    CASE endpoint = "time_series" -> "TimeSeriesResponse"
      [] endpoint = "quote" -> "QuoteResponse"
      [] endpoint = "price" -> "PriceResponse"
      [] endpoint = "logo" -> "LogoResponse"

StructFields(ty) ==
    CASE ty = "TimeSeriesResponse" -> TimeSeriesResponseFields
      [] ty = "TimeSeriesMeta" -> TimeSeriesMetaFields
      [] ty = "TimeSeriesQuote" -> TimeSeriesQuoteFields
      [] ty = "QuoteResponse" -> QuoteResponseFields
      [] ty = "FiftyTwoWeekStats" -> FiftyTwoWeekStatsFields
      [] ty = "PriceResponse" -> PriceResponseFields
      [] ty = "LogoResponse" -> LogoResponseFields

IsStructType(ty) ==
    ty \in {"TimeSeriesResponse", "TimeSeriesMeta", "TimeSeriesQuote",
            "QuoteResponse", "FiftyTwoWeekStats", "PriceResponse", "LogoResponse"}

\* the serde names of Interval, as texts
IntervalTexts ==
    {<<"1", "m", "i", "n">>, <<"5", "m", "i", "n">>, <<"1", "5", "m", "i", "n">>, <<"3", "0", "m", "i", "n">>, <<"4", "5", "m", "i", "n">>, <<"1", "h">>, <<"2", "h">>, <<"4", "h">>, <<"1", "d", "a", "y">>,
     <<"1", "w", "e", "e", "k">>, <<"1", "m", "o", "n", "t", "h">>}

ZeroF64 == [neg |-> FALSE, int |-> 0, frac |-> <<>>]

\* Default::default() of the defaulted field types
DefaultOf(ty) ==
    CASE ty = "OptionDisplayFromStr" -> None
      [] ty = "bool" -> FALSE
      [] ty = "FiftyTwoWeekStats" ->
            [low |-> ZeroF64, high |-> ZeroF64, low_change |-> ZeroF64,
             high_change |-> ZeroF64, low_change_percent |-> ZeroF64,
             high_change_percent |-> ZeroF64,
             range |-> [start |-> ZeroF64, end |-> ZeroF64]]

Ok(x) == [ok |-> TRUE, val |-> x]

\* the types decoded from one JSON string, number, bool or null
DecodeScalar(ty, v) ==
    IF ty = "i64"
    THEN IF v.t = "number" THEN Ok(v.n) ELSE Err("invalid type")
    ELSE IF ty = "bool"
    THEN IF v.t = "bool" THEN Ok(v.b) ELSE Err("invalid type")
    ELSE IF ty = "OptionDisplayFromStr" /\ v.t = "null" THEN Ok(None)
    ELSE IF v.t # "string" THEN Err("invalid type")
    ELSE CASE ty = "String" -> Ok(v.s)
           [] ty = "Interval" ->
                IF v.s \in IntervalTexts THEN Ok(v.s) ELSE Err("unknown variant")
           [] ty = "DisplayFromStr" ->
                LET r == ParseF64(v.s) IN IF r.ok THEN Ok(r.val) ELSE Err("custom")
           [] ty = "OptionDisplayFromStr" ->
                LET r == ParseF64(v.s)
                IN  IF r.ok THEN Ok(Some(r.val)) ELSE Err("custom")
           [] ty = "TdDateTime" ->
                LET r == VisitStrDateTime(v.s)
                IN  IF r.ok THEN Ok(r.val) ELSE Err("custom")
           [] ty = "TdRange" ->
                LET r == VisitStrRange(v.s)
                IN  IF r.ok THEN Ok(r.val) ELSE Err("custom")

\* a struct decodes from an object: the members present
\* are decoded first (unknown keys ignored), then a missing key takes the
\* field's default or fails.  (A derived struct also decodes from an array
\* of its fields in order; no body of this model holds an array where a
\* struct is expected.)
PresentFields(fields, v) ==
    {i \in 1..Len(fields) : fields[i].key \in DOMAIN v.f}

\* r[i] is the decoded member of field i, for the fields present
BuildStruct(fields, present, r) ==
    IF \E i \in present : ~r[i].ok THEN Err("invalid value")
    ELSE IF \E i \in (1..Len(fields)) \ present : ~fields[i].dflt
    THEN Err("missing field")
    ELSE Ok([k \in {fields[i].key : i \in 1..Len(fields)} |->
               LET i == CHOOSE j \in 1..Len(fields) : fields[j].key = k
               IN  IF i \in present THEN r[i].val
                   ELSE DefaultOf(fields[i].ty)])

\* the structs whose members are all scalars
DecodeStruct(fields, v) ==
    IF v.t # "object" THEN Err("invalid type")
    ELSE LET Present(present) ==
                 BuildStruct(fields, present,
                     [i \in present |-> DecodeScalar(fields[i].ty, v.f[fields[i].key])])
         IN  Present(PresentFields(fields, v))

DecodeInner(ty, v) ==
    IF IsStructType(ty) THEN DecodeStruct(StructFields(ty), v)
    ELSE DecodeScalar(ty, v)

\* a mutant of DecodeVec: the elements collected last to first
DecodeVecReversed(ty, v) ==
    IF v.t # "array" THEN Err("invalid type")
    ELSE LET Collect(r) ==
                 IF \E i \in DOMAIN r : ~r[i].ok THEN Err("invalid value")
                 ELSE Ok([i \in DOMAIN r |-> r[i].val])
         IN  Collect([i \in 1..Len(v.items) |->
                        DecodeInner(ty, v.items[Len(v.items) + 1 - i])])

\* Vec<T>: the elements of an array decoded in order
DecodeVec(ty, v) ==
    IF v.t # "array" THEN Err("invalid type")
    ELSE LET Collect(r) ==
                 IF \E i \in DOMAIN r : ~r[i].ok THEN Err("invalid value")
                 ELSE Ok([i \in DOMAIN r |-> r[i].val])
         IN  Collect([i \in 1..Len(v.items) |-> DecodeInner(ty, v.items[i])])

DecodeMember(ty, v) ==
    IF ty = "VecTimeSeriesQuote" THEN DecodeVec("TimeSeriesQuote", v)
    ELSE DecodeInner(ty, v)

\* serde_json::from_value::<U>(val)
FromValue(ty, val) ==
    IF val.t # "object" THEN Err("invalid type")
    ELSE LET Present(fields, present) ==
                 BuildStruct(fields, present,
                     [i \in present |-> DecodeMember(fields[i].ty, val.f[fields[i].key])])
         IN  Present(StructFields(ty), PresentFields(StructFields(ty), val))

\* serde_json::from_str::<Value>(body): a body text is either malformed or
\* the text of one JSON value
FromStr(body) == IF body.json THEN Ok(body.val) ELSE Err("syntax")

(***************************************************************************)
(* TwelveData::send.                                                       *)
(***************************************************************************)
API_URL == "https://api.twelvedata.com"

TxtError == <<"e", "r", "r", "o", "r">>

\* the values send returns, and the abort of a call that panics
Response(x) == [kind |-> "Response", val |-> x]

HttpError(e) == [kind |-> "HttpError", err |-> e]

QueryConstruction(e) == [kind |-> "QueryConstruction", err |-> e]

ResponseParsing(e) == [kind |-> "ResponseParsing", err |-> e]

DataError(reason) == [kind |-> "DataError", reason |-> reason]

Panicked(what) == [kind |-> "panic", what |-> what]

\* the reason of a DataError: a string literal, the text of a JSON string,
\* or format!(fmt, arg)
Literal(l) == [lit |-> l]

Owned(s) == [text |-> s]

Formatted(fmt, arg) == [fmt |-> fmt, arg |-> arg]

\* Value::is_string and Value::as_str
IsString(v) == v.t = "string"

AsStr(v) == IF v.t = "string" THEN Some(v.s) ELSE None

\* lib.rs lines 74-80: the reason is the unwrapped as_str() of `message`
\* when the body has one, else the placeholder
EnvelopeError(val) ==
    LET Reason(m) ==
            IF m.some
            THEN IF AsStr(m.v).some THEN DataError(Owned(AsStr(m.v).v))
                 ELSE Panicked("called Option::unwrap() on a None value")
            ELSE DataError(Literal("<unknown reasuon>"))
    IN  Reason(Get(val, "message"))

\* lib.rs line 84
Decoded(d) == IF d.ok THEN Response(d.val) ELSE ResponseParsing(d.kind)

\* mutants of Classify: the body parsed before the status is looked at; a
\* `status` member that is not a string passed over
ClassifyParseFirst(endpoint, res) ==
    LET Parsed(parsed) ==
            IF ~parsed.ok THEN ResponseParsing(parsed.kind)
            ELSE IF res.status # 200
            THEN DataError(Formatted("status {}", res.status))
            ELSE Decoded(FromValue(ResponseType(endpoint), parsed.val))
    IN  Parsed(FromStr(res.body))

ClassifyLenientStatus(endpoint, res) ==
    LET Envelope(val, status) ==
            IF status.some /\ IsString(status.v) /\ AsStr(status.v).v = TxtError
            THEN EnvelopeError(val)
            ELSE Decoded(FromValue(ResponseType(endpoint), val))
        Parsed(parsed) ==
            IF ~parsed.ok THEN ResponseParsing(parsed.kind)
            ELSE Envelope(parsed.val, Get(parsed.val, "status"))
    IN  IF res.status = 200 THEN Parsed(FromStr(res.body))
        ELSE DataError(Formatted("status {}", res.status))

\* lib.rs lines 65-87: what send makes of the transport's Response
Classify(endpoint, res) ==
    LET Envelope(val, status) ==
            IF status.some /\ ~IsString(status.v)
            THEN DataError(Literal("status value in the response is not a string"))
            ELSE IF status.some /\ AsStr(status.v).v = TxtError
            THEN EnvelopeError(val)
            ELSE Decoded(FromValue(ResponseType(endpoint), val))
        Parsed(parsed) ==
            IF ~parsed.ok THEN ResponseParsing(parsed.kind)
            ELSE Envelope(parsed.val, Get(parsed.val, "status"))
    IN  IF res.status = 200 THEN Parsed(FromStr(res.body))
        ELSE DataError(Formatted("status {}", res.status))

\* lib.rs line 63 on: a transport error is returned as it is (the `?`)
AfterGet(endpoint, r) ==
    IF r.ok THEN Classify(endpoint, r.res) ELSE HttpError(r.err)

\* lib.rs line 60: serde_urlencoded::to_string returns a Result.  Which
\* values it rejects is the library's matter: the model lets it reject
\* any request (`rejected`).
ToStringResult(r) ==
    IF r.rejected THEN Err("unsupported value") ELSE Ok(ToQueryString(r))

\* lib.rs line 61
Url(endpoint, params) ==
    [fmt |-> "{}/{}?{}", base |-> API_URL, endpoint |-> endpoint, params |-> params]

NoReply == [ok |-> FALSE, none |-> TRUE]

NoResult == [kind |-> "none"]

\* the `res` a resumed call holds: what its own get returned.  The mutant
\* reads a slot shared by the calls of the TwelveData value.
ResOfShared(c) ==
    reply[CHOOSE d \in DOMAIN reply : reply[d] # NoReply]

ResOf(c) == reply[c]

\* a call of time_series, quote, price or logo up to the await of line 63:
\* the request is serialized, the url built and HttpClient::get invoked
Begin(c) ==
    /\ pc[c] = "start"
    /\ LET Encoded(params) ==
               IF params.ok
               THEN /\ sent' = [sent EXCEPT ![c] =
                                  Append(@, [url |-> Url(req[c].endpoint, params.val),
                                             api_key |-> td.api_key])]
                    /\ pc' = [pc EXCEPT ![c] = "awaiting"]
                    /\ UNCHANGED result
               ELSE /\ result' = [result EXCEPT ![c] = QueryConstruction(params.kind)]
                    /\ pc' = [pc EXCEPT ![c] = "done"]
                    /\ UNCHANGED sent
       IN  Encoded(ToStringResult(req[c]))
    /\ UNCHANGED <<td, req, reply, encVars, dtVars, rgVars>>

\* HttpClient::get completes: a transport error, or a status and a body
TransportReply(c, replies) ==
    /\ pc[c] = "awaiting"
    /\ \E r \in replies : reply' = [reply EXCEPT ![c] = r]
    /\ pc' = [pc EXCEPT ![c] = "replied"]
    /\ UNCHANGED <<td, req, sent, result, encVars, dtVars, rgVars>>

\* a mutant of Resume: a call whose outcome is not a Response asks again
ResumeWithRetry(c) ==
    /\ pc[c] = "replied"
    /\ LET Returned(outcome) ==
               IF outcome.kind # "Response" /\ Len(sent[c]) < 2
               THEN /\ sent' = [sent EXCEPT ![c] = Append(sent[c], sent[c][1])]
                    /\ pc' = [pc EXCEPT ![c] = "awaiting"]
                    /\ UNCHANGED result
               ELSE /\ result' = [result EXCEPT ![c] = outcome]
                    /\ pc' = [pc EXCEPT ![c] = "done"]
                    /\ UNCHANGED sent
       IN  Returned(AfterGet(req[c].endpoint, ResOf(c)))
    /\ UNCHANGED <<td, req, reply, encVars, dtVars, rgVars>>

\* the call resumes after the await and runs to its return (lines 63-88)
Resume(c) ==
    /\ pc[c] = "replied"
    /\ result' = [result EXCEPT ![c] = AfterGet(req[c].endpoint, ResOf(c))]
    /\ pc' = [pc EXCEPT ![c] = "done"]
    /\ UNCHANGED <<td, req, sent, reply, encVars, dtVars, rgVars>>

(***************************************************************************)
(* Idle values of the parts a specification does not exercise.             *)
(***************************************************************************)
TdValue == [api_key |-> "demo-key", client |-> "client"]

NoCalls == [c \in {} |-> 0]

DispatchIdle ==
    /\ td = TdValue
    /\ pc = NoCalls /\ req = NoCalls /\ sent = NoCalls
    /\ reply = NoCalls /\ result = NoCalls

EncIdle == encReq = Pending /\ encOut = Pending

DateTimeIdle == dtIn = <<>> /\ dtOut = [ok |-> FALSE, idle |-> TRUE]

RangeIdle == rgIn = <<>> /\ rgOut = [ok |-> FALSE, idle |-> TRUE]

(***************************************************************************)
(* The datetime decoder on a bounded set of texts: dates (valid, invalid,  *)
(* unpadded) followed by nothing, a time (valid, invalid, incomplete), or  *)
(* something else.                                                         *)
(***************************************************************************)
YearTexts == {<<"2", "0", "2", "2">>, <<"2", "0", "2", "4">>}

MonthTexts == {<<"0", "9">>, <<"0", "2">>, <<"1", "3">>, <<"9">>}

DayTexts == {<<"2", "0">>, <<"2", "9">>, <<"3", "1">>, <<"5">>}

TailTexts ==
    {<<>>, <<" ", "0", "0", ":", "0", "0", ":", "0", "0">>, <<" ", "1", "5", ":", "3", "0", ":", "4", "5">>, <<" ", "2", "4", ":", "0", "0", ":", "0", "0">>, <<" ", "1", "5", ":", "3", "0">>, <<"T", "0", "0", ":", "0", "0", ":", "0", "0">>, <<" ", "0", "0", ":", "0", "0", ":", "0", "0", "x">>,
     <<" ", " ", "7", ":", "0", "5", ":", "0", "9">>, <<" ", "2", "3", ":", "5", "9", ":", "6", "0">>, <<"x">>}

DateTimeTexts ==
    {y \o <<"-">> \o m \o <<"-">> \o d \o t :
        y \in YearTexts, m \in MonthTexts, d \in DayTexts, t \in TailTexts}
    \cup {<<>>, <<"n", "o", "t", "-", "a", "-", "d", "a", "t", "e">>, <<"2", "0", "2", "2", "/", "0", "9", "/", "2", "0">>}

InitDateTime ==
    /\ DispatchIdle /\ EncIdle /\ RangeIdle
    /\ dtIn \in DateTimeTexts
    /\ dtOut = Pending

\* the deserializer hands the text to TdDateTimeVisitor::visit_str
DecodeDateTime ==
    /\ dtOut = Pending
    /\ dtOut' = VisitStrDateTime(dtIn)
    /\ UNCHANGED <<dtIn, dispatchVars, encVars, rgVars>>

NextDateTime == DecodeDateTime

SpecDateTime == InitDateTime /\ [][NextDateTime]_vars

(***************************************************************************)
(* The range decoder on every text of at most MaxRangeLen characters over  *)
(* RangeAlphabet, and on the texts of the tests.                           *)
(***************************************************************************)
MaxRangeLen == 6

RangeAlphabet == {"1", ".", "-", " ", "x"}

RangeExamples == {<<"1", "2", "9", ".", "0", "3", "9", "9", "9", "3", " ", "-", " ", "1", "8", "2", ".", "9", "4", "0", "0", "0", "2">>, <<"a", "b", "c">>}

RangeTexts ==
    UNION {[1..n -> RangeAlphabet] : n \in 0..MaxRangeLen} \cup RangeExamples

InitRange ==
    /\ DispatchIdle /\ EncIdle /\ DateTimeIdle
    /\ rgIn \in RangeTexts
    /\ rgOut = Pending

\* the deserializer hands the text to TdRangeVisitor::visit_str
DecodeRange ==
    /\ rgOut = Pending
    /\ rgOut' = VisitStrRange(rgIn)
    /\ UNCHANGED <<rgIn, dispatchVars, encVars, dtVars>>

NextRange == DecodeRange

SpecRange == InitRange /\ [][NextRange]_vars

(***************************************************************************)
(* The serialization of every request value.                               *)
(***************************************************************************)
InitEncode ==
    /\ DispatchIdle /\ DateTimeIdle /\ RangeIdle
    /\ \E e \in Endpoints :
         \E p \in SUBSET OptionalNames(e), cp \in SUBSET CommonOptionalNames(e) :
            encReq = RequestValue(e, p, cp)
    /\ encOut = Pending

\* send serializes its request (lib.rs line 60)
EncodeRequest ==
    /\ encOut = Pending
    /\ encOut' = [ok |-> TRUE, pairs |-> ToQueryString(encReq)]
    /\ UNCHANGED <<encReq, dispatchVars, dtVars, rgVars>>

NextEncode == EncodeRequest

SpecEncode == InitEncode /\ [][NextEncode]_vars

(***************************************************************************)
(* The replies of the transport: a transport error, or a status with a     *)
(* body.  A body is malformed, a JSON value that is no object, or an       *)
(* object made of an envelope (`status` and `message` members, each absent *)
(* or of one of the JSON types) and the members of a payload.              *)
(***************************************************************************)
HttpStatuses == {200, 201, 204, 404, 429, 500}

TxtOk == <<"o", "k">>

TxtBadSymbol == <<"b", "a", "d", " ", "s", "y", "m", "b", "o", "l">>

StatusMembers ==
    {None, Some(JString(TxtOk)), Some(JString(TxtError)), Some(JNumber(1)),
     Some(JBool(TRUE)), Some(JNull), Some(JArray(<<>>)), Some(JObject(NoFields))}

MessageMembers ==
    {None, Some(JString(TxtBadSymbol)), Some(JNumber(404)), Some(JNull),
     Some(JObject(NoFields))}

Member(key, m) == IF m.some THEN key :> m.v ELSE NoFields

PricePayload == [price |-> JString(<<"1", "5", "6", ".", "8", "9", "9", "9", "9">>)]

BadPricePayload == [price |-> JNumber(156)]

LogoPayload == [url |-> JString(<<"h", "t", "t", "p", "s", ":", "/", "/", "l", "o", "g", "o", "/", "t", "s", "l", "a", ".", "p", "n", "g">>)]

QuoteRow(day, close) ==
    [datetime |-> JString(day), open |-> JString(<<"3", "0", "6", ".", "9", "1", "5", "0", "1">>),
     high |-> JString(<<"3", "1", "3", ".", "3", "2", "9", "9", "9">>), low |-> JString(<<"3", "0", "5", ".", "5", "7", "9", "9", "9">>),
     close |-> JString(close), volume |-> JString(<<"2", "3", "1", "2", "6", "1">>)]

TimeSeriesPayload ==
    [meta |-> JObject([symbol |-> JString(<<"T", "S", "L", "A">>), interval |-> JString(<<"1", "d", "a", "y">>),
                       currency |-> JString(<<"U", "S", "D">>),
                       exchange_timezone |-> JString(<<"A", "m", "e", "r", "i", "c", "a", "/", "N", "e", "w", "_", "Y", "o", "r", "k">>),
                       exchange |-> JString(<<"N", "A", "S", "D", "A", "Q">>),
                       mic_code |-> JString(<<"X", "N", "G", "S">>),
                       type |-> JString(<<"C", "o", "m", "m", "o", "n", " ", "S", "t", "o", "c", "k">>)]),
     status |-> JString(TxtOk),
     values |-> JArray(<<JObject(QuoteRow(<<"2", "0", "2", "2", "-", "0", "9", "-", "2", "0">>, <<"3", "0", "8", ".", "7", "3", "0", "0", "1">>)),
                         JObject(QuoteRow(<<"2", "0", "2", "2", "-", "0", "9", "-", "1", "9", " ", "1", "5", ":", "3", "0", ":", "0", "0">>, <<"3", "0", "9", ".", "0", "7", "0", "0", "1">>))>>)]

QuotePayload ==
    [symbol |-> JString(<<"A", "A", "P", "L">>), name |-> JString(<<"A", "p", "p", "l", "e", " ", "I", "n", "c">>),
     exchange |-> JString(<<"N", "A", "S", "D", "A", "Q">>), mic_code |-> JString(<<"X", "N", "G", "S">>),
     currency |-> JString(<<"U", "S", "D">>), datetime |-> JString(<<"2", "0", "2", "2", "-", "0", "9", "-", "2", "0">>),
     timestamp |-> JNumber(1663703999), open |-> JString(<<"1", "5", "3", ".", "3", "9", "9", "9", "9">>),
     high |-> JString(<<"1", "5", "8", ".", "0", "8", "0", "0", "0">>), low |-> JString(<<"1", "5", "3", ".", "0", "8", "0", "0", "0">>),
     close |-> JString(<<"1", "5", "6", ".", "8", "9", "9", "9", "9">>), volume |-> JString(<<"1", "0", "7", "5", "4", "7", "9", "0", "0">>),
     previous_close |-> JString(<<"1", "5", "4", ".", "4", "8", "0", "0", "0">>), change |-> JString(<<"2", ".", "4", "2", "0", "0", "0">>),
     percent_change |-> JString(<<"1", ".", "5", "6", "6", "5", "4">>),
     average_volume |-> JString(<<"9", "9", "7", "6", "4", "0", "4", "0">>), is_market_open |-> JBool(FALSE),
     fifty_two_week |->
        JObject([low |-> JString(<<"1", "2", "9", ".", "0", "3", "9", "9", "9">>), high |-> JString(<<"1", "8", "2", ".", "9", "4", "0", "0", "0">>),
                 low_change |-> JString(<<"2", "7", ".", "8", "6", "0", "0", "0">>),
                 high_change |-> JString(<<"-", "2", "6", ".", "0", "4", "0", "0", "1">>),
                 low_change_percent |-> JString(<<"2", "1", ".", "5", "9", "0", "2", "1">>),
                 high_change_percent |-> JString(<<"-", "1", "4", ".", "2", "3", "4", "1", "8">>),
                 range |-> JString(<<"1", "2", "9", ".", "0", "3", "9", "9", "9", "3", " ", "-", " ", "1", "8", "2", ".", "9", "4", "0", "0", "0", "2">>)])]

Payloads ==
    {NoFields, PricePayload, BadPricePayload, LogoPayload, TimeSeriesPayload,
     QuotePayload}

JsonBody(val) == [json |-> TRUE, val |-> val]

MalformedBody == [json |-> FALSE]

Bodies ==
    {JsonBody(JObject(Member("status", st) @@ Member("message", msg) @@ p)) :
        st \in StatusMembers, msg \in MessageMembers, p \in Payloads}
    \cup {MalformedBody, JsonBody(JNumber(1)), JsonBody(JString(TxtError))}

GotResponse(status, body) ==
    [ok |-> TRUE, res |-> [status |-> status, body |-> body]]

TransportError == [ok |-> FALSE, err |-> "connection refused"]

Replies ==
    {GotResponse(st, b) : st \in HttpStatuses, b \in Bodies} \cup {TransportError}

\* the requests of the dispatcher's specifications: for each endpoint the
\* request with no optional field and the one with all of them
Submitted(r, rejected) ==
    [endpoint |-> r.endpoint, val |-> r.val, rejected |-> rejected]

RequestsOf(e) ==
    {Submitted(RequestValue(e, p, cp), rej) :
        p \in {{}, OptionalNames(e)}, cp \in {{}, CommonOptionalNames(e)},
        rej \in BOOLEAN}

SubmittedRequests == UNION {RequestsOf(e) : e \in Endpoints}

InitCalls(calls, requests) ==
    /\ td = TdValue
    /\ pc = [c \in calls |-> "start"]
    /\ req \in [calls -> requests]
    /\ sent = [c \in calls |-> <<>>]
    /\ reply = [c \in calls |-> NoReply]
    /\ result = [c \in calls |-> NoResult]
    /\ EncIdle /\ DateTimeIdle /\ RangeIdle

(***************************************************************************)
(* One call of send, on every request and every reply.                     *)
(***************************************************************************)
OneCall == {1}

Init == InitCalls(OneCall, SubmittedRequests)

Next ==
    \E c \in OneCall :
        \/ Begin(c)
        \/ TransportReply(c, Replies)
        \/ Resume(c)

Spec == Init /\ [][Next]_vars

(***************************************************************************)
(* NumCalls concurrent calls on one TwelveData value, on a sample of the   *)
(* requests and replies.  The futures of the calls are polled in any       *)
(* order; each suspends only at its await of HttpClient::get.              *)
(***************************************************************************)
NumCalls == 2

SampleRequests ==
    {Submitted(RequestValue("price", {}, {}), FALSE),
     Submitted(RequestValue("logo", {}, {}), FALSE),
     Submitted(RequestValue("price", {}, {}), TRUE)}

SampleReplies ==
    {TransportError,
     GotResponse(200, JsonBody(JObject(PricePayload))),
     GotResponse(200, JsonBody(JObject(LogoPayload))),
     GotResponse(200, JsonBody(JObject(Member("status", Some(JString(TxtError)))
                                       @@ Member("message", Some(JString(TxtBadSymbol)))))),
     GotResponse(200, MalformedBody),
     GotResponse(429, MalformedBody)}

Calls == 1..NumCalls

InitConcurrent == InitCalls(Calls, SampleRequests)

NextConcurrent ==
    \E c \in Calls :
        \/ Begin(c)
        \/ TransportReply(c, SampleReplies)
        \/ Resume(c)

SpecConcurrent == InitConcurrent /\ [][NextConcurrent]_vars

(***************************************************************************)
(* One call of time_series, on bodies whose `values` array varies.         *)
(***************************************************************************)
MaxRows == 3

TestRow(datetime, open, high, low, close, volume) ==
    JObject([datetime |-> JString(datetime), open |-> JString(open),
             high |-> JString(high), low |-> JString(low),
             close |-> JString(close), volume |-> JString(volume)])

\* the ten rows of test_timeseries_response
TestTimeSeriesRows ==
    <<
        TestRow(<<"2", "0", "2", "2", "-", "0", "9", "-", "2", "0">>,
                <<"3", "0", "6", ".", "9", "1", "5", "0", "1">>,
                <<"3", "1", "3", ".", "3", "2", "9", "9", "9">>,
                <<"3", "0", "5", ".", "5", "7", "9", "9", "9">>,
                <<"3", "0", "8", ".", "7", "3", "0", "0", "1">>,
                <<"2", "3", "1", "2", "6", "1">>),
        TestRow(<<"2", "0", "2", "2", "-", "0", "9", "-", "1", "9">>,
                <<"3", "0", "0", ".", "0", "9", "0", "0", "0">>,
                <<"3", "0", "9", ".", "8", "4", "0", "0", "0">>,
                <<"2", "9", "7", ".", "7", "9", "9", "9", "9">>,
                <<"3", "0", "9", ".", "0", "7", "0", "0", "1">>,
                <<"6", "0", "0", "6", "0", "2", "0", "0">>),
        TestRow(<<"2", "0", "2", "2", "-", "0", "9", "-", "1", "6">>,
                <<"2", "9", "9", ".", "6", "0", "9", "9", "9">>,
                <<"3", "0", "3", ".", "7", "0", "9", "9", "9">>,
                <<"2", "9", "5", ".", "6", "0", "0", "0", "1">>,
                <<"3", "0", "3", ".", "3", "5", "0", "0", "1">>,
                <<"8", "6", "9", "4", "9", "5", "0", "0">>),
        TestRow(<<"2", "0", "2", "2", "-", "0", "9", "-", "1", "5">>,
                <<"3", "0", "1", ".", "8", "2", "9", "9", "9">>,
                <<"3", "0", "9", ".", "1", "2", "0", "0", "0">>,
                <<"3", "0", "0", ".", "7", "2", "0", "0", "0">>,
                <<"3", "0", "3", ".", "7", "5", "0", "0", "0">>,
                <<"6", "4", "7", "9", "5", "5", "0", "0">>),
        TestRow(<<"2", "0", "2", "2", "-", "0", "9", "-", "1", "4">>,
                <<"2", "9", "2", ".", "2", "3", "9", "9", "9">>,
                <<"3", "0", "6", ".", "0", "0", "0", "0", "0">>,
                <<"2", "9", "1", ".", "6", "4", "0", "0", "1">>,
                <<"3", "0", "2", ".", "6", "0", "9", "9", "9">>,
                <<"7", "2", "6", "2", "8", "7", "0", "0">>),
        TestRow(<<"2", "0", "2", "2", "-", "0", "9", "-", "1", "3">>,
                <<"2", "9", "2", ".", "8", "9", "9", "9", "9">>,
                <<"2", "9", "7", ".", "3", "9", "9", "9", "9">>,
                <<"2", "9", "0", ".", "3", "9", "9", "9", "9">>,
                <<"2", "9", "2", ".", "1", "3", "0", "0", "0">>,
                <<"6", "8", "2", "2", "9", "6", "0", "0">>),
        TestRow(<<"2", "0", "2", "2", "-", "0", "9", "-", "1", "2">>,
                <<"3", "0", "0", ".", "7", "2", "0", "0", "0">>,
                <<"3", "0", "5", ".", "4", "8", "9", "9", "9">>,
                <<"3", "0", "0", ".", "3", "9", "9", "9", "9">>,
                <<"3", "0", "4", ".", "4", "2", "0", "0", "1">>,
                <<"4", "8", "6", "7", "4", "6", "0", "0">>),
        TestRow(<<"2", "0", "2", "2", "-", "0", "9", "-", "0", "9">>,
                <<"2", "9", "1", ".", "6", "7", "0", "0", "1">>,
                <<"2", "9", "9", ".", "8", "5", "0", "0", "1">>,
                <<"2", "9", "1", ".", "2", "5", "0", "0", "0">>,
                <<"2", "9", "9", ".", "6", "7", "9", "9", "9">>,
                <<"5", "4", "3", "3", "8", "1", "0", "0">>),
        TestRow(<<"2", "0", "2", "2", "-", "0", "9", "-", "0", "8">>,
                <<"2", "8", "1", ".", "2", "9", "9", "9", "9">>,
                <<"2", "8", "9", ".", "5", "0", "0", "0", "0">>,
                <<"2", "7", "9", ".", "7", "6", "0", "0", "1">>,
                <<"2", "8", "9", ".", "2", "6", "0", "0", "1">>,
                <<"5", "3", "7", "1", "3", "1", "0", "0">>),
        TestRow(<<"2", "0", "2", "2", "-", "0", "9", "-", "0", "7">>,
                <<"2", "7", "3", ".", "1", "0", "0", "0", "1">>,
                <<"2", "8", "3", ".", "8", "4", "0", "0", "0">>,
                <<"2", "7", "2", ".", "2", "6", "9", "9", "9">>,
                <<"2", "8", "3", ".", "7", "0", "0", "0", "1">>,
                <<"5", "0", "0", "2", "8", "9", "0", "0">>)
    >>

\* three rows that decode, no two alike, and one whose datetime does not
TimeSeriesRows ==
    {TestTimeSeriesRows[1], TestTimeSeriesRows[2],
     JObject(QuoteRow(<<"2", "0", "2", "2", "-", "0", "9", "-", "1", "9", " ", "1", "5", ":", "3", "0", ":", "0", "0">>, <<"3", "0", "9", ".", "0", "7", "0", "0", "1">>)),
     JObject(QuoteRow(<<"n", "o", "t", "-", "a", "-", "d", "a", "t", "e">>, <<"1", ".", "5">>))}

TimeSeriesBody(rows) ==
    JsonBody(JObject([TimeSeriesPayload EXCEPT !.values = JArray(rows)]))

TimeSeriesReplies ==
    {GotResponse(200, TimeSeriesBody(rows)) :
        rows \in UNION {[1..n -> TimeSeriesRows] : n \in 0..MaxRows}}
    \cup {GotResponse(200, TimeSeriesBody(TestTimeSeriesRows))}

InitTimeSeries == InitCalls(OneCall, RequestsOf("time_series"))

NextTimeSeries ==
    \E c \in OneCall :
        \/ Begin(c)
        \/ TransportReply(c, TimeSeriesReplies)
        \/ Resume(c)

SpecTimeSeries == InitTimeSeries /\ [][NextTimeSeries]_vars

(***************************************************************************)
(* Properties of TwelveData::send (specification Spec).                    *)
(***************************************************************************)
Returned(c) == pc[c] = "done" /\ reply[c] # NoReply

\* call c returned after a reply with this status whose body is a JSON object
ObjectBody(c, status) ==
    /\ Returned(c) /\ reply[c].ok /\ reply[c].res.status = status
    /\ reply[c].res.body.json /\ reply[c].res.body.val.t = "object"

MembersOf(c) == reply[c].res.body.val.f

HasMember(c, key) == key \in DOMAIN MembersOf(c)

ErrorEnvelope(c) ==
    /\ ObjectBody(c, 200) /\ HasMember(c, "status")
    /\ MembersOf(c)["status"].t = "string"
    /\ MembersOf(c)["status"].s = TxtError

\* C1: a reply with status 200 whose body has a top-level `status` equal
\* to "error" makes the call return DataError, whatever the other members
\* are; the reason is the `message` string when the body has a `message`,
\* and the placeholder when it has none.
C1_ErrorEnvelopeIsDataError ==
    \A c \in DOMAIN pc :
        ErrorEnvelope(c) =>
            /\ result[c].kind = "DataError"
            /\ ~HasMember(c, "message") =>
                   result[c].reason = Literal("<unknown reasuon>")
            /\ HasMember(c, "message") /\ MembersOf(c)["message"].t = "string" =>
                   result[c].reason = Owned(MembersOf(c)["message"].s)

\* C2: a reply whose status is not in 200..299 makes the call return the
\* DataError that carries the status, for every body: never
\* ResponseParsing, never a Response.
C2_NonSuccessStatusIsDataError ==
    \A c \in DOMAIN pc :
        (Returned(c) /\ reply[c].ok /\ reply[c].res.status \notin 200..299) =>
            result[c] = DataError(Formatted("status {}", reply[c].res.status))

C2_Witness ==
    \E c \in DOMAIN pc :
        /\ Returned(c) /\ reply[c].ok /\ reply[c].res.status = 429
        /\ ~reply[c].res.body.json
        /\ result[c].kind = "DataError"

\* C3: a call invokes HttpClient::get at most once: once when its request
\* serializes, never when it does not; and after the transport returned,
\* whatever it returned, the call ends without another get.
C3_OneGetPerCall ==
    \A c \in DOMAIN pc :
        /\ Len(sent[c]) <= 1
        /\ pc[c] # "start" => Len(sent[c]) = IF req[c].rejected THEN 0 ELSE 1

C3_Witness ==
    \E c \in DOMAIN pc :
        /\ Returned(c) /\ result[c].kind = "ResponseParsing"
        /\ Len(sent[c]) = 1

\* C4: every call ends by returning a Response, HttpError,
\* QueryConstruction, ResponseParsing or DataError; none aborts.
C4_AlwaysReturnsAValue ==
    \A c \in DOMAIN pc :
        pc[c] = "done" =>
            result[c].kind \in {"Response", "HttpError", "QueryConstruction",
                                "ResponseParsing", "DataError"}

\* C9: a reply with status 200 whose body has a top-level `status` that
\* is not a JSON string makes the call return DataError; the body is not
\* decoded into the Response.
C9_NonStringStatusIsDataError ==
    \A c \in DOMAIN pc :
        (ObjectBody(c, 200) /\ HasMember(c, "status")
            /\ MembersOf(c)["status"].t # "string") =>
            result[c] = DataError(Literal(
                            "status value in the response is not a string"))

\* the body but for its `status` is a price the call would have returned
C9_Witness ==
    \E c \in DOMAIN pc :
        /\ ObjectBody(c, 200) /\ HasMember(c, "status")
        /\ MembersOf(c)["status"].t = "number"
        /\ req[c].endpoint = "price"
        /\ HasMember(c, "price") /\ MembersOf(c)["price"] = PricePayload.price
        /\ result[c].kind = "DataError"

(***************************************************************************)
(* Properties of the request serialization (specification SpecEncode).     *)
(***************************************************************************)
\* the fields of the request being serialized, the flattened ones among
\* them: wire key, whether optional, value
EncLeaves ==
    LET Leaves(fields, val) ==
            {[key |-> fields[i].key, opt |-> fields[i].kind = "opt",
              v |-> val[fields[i].name]] :
                i \in {j \in 1..Len(fields) : fields[j].kind # "flatten"}}
        own == RequestFields(encReq.endpoint)
    IN  Leaves(own, encReq.val)
        \cup IF FieldNames(own, "flatten") = {} THEN {}
             ELSE Leaves(CommonQueryParametersFields, encReq.val.common)

PairsWithKey(k) == {i \in 1..Len(encOut.pairs) : encOut.pairs[i][1] = k}

\* C5: the query string of a request holds no pair for an absent optional
\* field and exactly one pair, key=value, for each present field, the
\* fields of the flattened CommonQueryParameters beside the request's own.
C5_AbsentFieldsOmitted ==
    encOut # Pending =>
        /\ \A l \in EncLeaves :
              IF l.opt /\ ~l.v.some THEN PairsWithKey(l.key) = {}
              ELSE /\ Cardinality(PairsWithKey(l.key)) = 1
                   /\ \A i \in PairsWithKey(l.key) :
                         encOut.pairs[i][2] =
                             ValueText(IF l.opt THEN l.v.v ELSE l.v)
        /\ \A i \in 1..Len(encOut.pairs) :
              encOut.pairs[i][1] \in {l.key : l \in EncLeaves}

C5_Witness ==
    /\ encOut # Pending
    /\ encReq.endpoint = "time_series"
    /\ ~encReq.val.common.exchange.some /\ encReq.val.common.instrument_type.some
    /\ ~encReq.val.output_size.some /\ encReq.val.order.some
    /\ Len(encOut.pairs) = 4

(***************************************************************************)
(* Properties of the datetime decoder (specification SpecDateTime).        *)
(***************************************************************************)
ExampleDate == <<"2", "0", "2", "2", "-", "0", "9", "-", "2", "0">>

ExampleMidnight == <<"2", "0", "2", "2", "-", "0", "9", "-", "2", "0", " ", "0", "0", ":", "0", "0", ":", "0", "0">>

ExampleTimestamp ==
    [year |-> 2022, month |-> 9, day |-> 20, hour |-> 0, minute |-> 0,
     second |-> 0, leap |-> FALSE]

\* C6: a text the full format matches decodes to that timestamp; a text
\* only the date format matches decodes to 00:00:00 of that date; a text
\* neither matches fails.  "2022-09-20 00:00:00" and "2022-09-20" decode
\* to the same timestamp.
C6_TwoFormats ==
    dtOut # Pending =>
        LET full == NaiveDateTimeParse(dtIn)
            date == NaiveDateParse(dtIn)
        IN  /\ full.ok => dtOut = [ok |-> TRUE, val |-> full.val]
            /\ ~full.ok /\ date.ok =>
                  dtOut = [ok |-> TRUE,
                           val |-> [year |-> date.val.year,
                                    month |-> date.val.month,
                                    day |-> date.val.day, hour |-> 0,
                                    minute |-> 0, second |-> 0, leap |-> FALSE]]
            /\ ~full.ok /\ ~date.ok => ~dtOut.ok
            /\ dtIn \in {ExampleDate, ExampleMidnight} =>
                  dtOut = [ok |-> TRUE, val |-> ExampleTimestamp]

C6_Witness == dtIn = ExampleDate /\ dtOut = [ok |-> TRUE, val |-> ExampleTimestamp]

\* C7: the error of a text neither format matches names the text and both
\* parse failures, that of the full format and that of the date format.
C7_ErrorNamesBothFailures ==
    (dtOut # Pending /\ ~dtOut.ok) =>
        /\ dtOut.text = dtIn
        /\ \E i \in DOMAIN dtOut.failures :
              dtOut.failures[i] = NaiveDateTimeParse(dtIn).kind
        /\ \E i \in DOMAIN dtOut.failures :
              dtOut.failures[i] = NaiveDateParse(dtIn).kind

(***************************************************************************)
(* Properties of the range decoder (specification SpecRange).              *)
(***************************************************************************)
SeparatorAt(i) ==
    /\ i + 2 <= Len(rgIn)
    /\ rgIn[i] = " " /\ rgIn[i + 1] = "-" /\ rgIn[i + 2] = " "

TestRange == <<"1", "2", "9", ".", "0", "3", "9", "9", "9", "3", " ", "-", " ", "1", "8", "2", ".", "9", "4", "0", "0", "0", "2">>

\* C8: a text without " - " fails with the separator error; otherwise the
\* text before the first " - " is the low value and all of the text after
\* it the high value, each parsed as a float: the error names the first
\* value if that fails, the second if only that fails, and the result is
\* the pair if both parse.
C8_RangeSplitsAtFirstSeparator ==
    rgOut # Pending =>
        LET seps == {i \in 1..Len(rgIn) : SeparatorAt(i)}
        IN  /\ seps = {} =>
                  ~rgOut.ok /\ rgOut.msg = "couldn't find the range separator"
            /\ seps # {} =>
                  LET k == CHOOSE i \in seps : \A j \in seps : i <= j
                      lo == ParseF64(SubSeq(rgIn, 1, k - 1))
                      hi == ParseF64(SubSeq(rgIn, k + 3, Len(rgIn)))
                  IN  /\ ~lo.ok =>
                            /\ ~rgOut.ok
                            /\ rgOut.msg = "failed to parse the first range value"
                      /\ lo.ok /\ ~hi.ok =>
                            /\ ~rgOut.ok
                            /\ rgOut.msg = "failed to parse the second range value"
                      /\ lo.ok /\ hi.ok =>
                            rgOut = [ok |-> TRUE,
                                     val |-> [start |-> lo.val, end |-> hi.val]]
            /\ rgIn = <<"1", " ", "-", " ", "x">> =>
                  rgOut.msg = "failed to parse the second range value"
            /\ rgIn = TestRange =>
                  rgOut = [ok |-> TRUE,
                           val |-> [start |-> [neg |-> FALSE, int |-> 129,
                                               frac |-> <<0, 3, 9, 9, 9, 3>>],
                                    end |-> [neg |-> FALSE, int |-> 182,
                                             frac |-> <<9, 4, 0, 0, 0, 2>>]]]

C8_Witness == rgIn = TestRange /\ rgOut # Pending /\ rgOut.ok

(***************************************************************************)
(* Properties of concurrent calls (specification SpecConcurrent).          *)
(***************************************************************************)
\* what a call alone returns for a request and the reply to its get
AloneResult(r, rep) ==
    IF r.rejected THEN QueryConstruction("unsupported value")
    ELSE AfterGet(r.endpoint, rep)

CallState(c) == <<pc[c], req[c], sent[c], reply[c], result[c]>>

\* C10: in every interleaving of the calls on one TwelveData value, a step
\* of one call changes nothing of another call and nothing of the
\* TwelveData value, and a call returns what it would return alone for its
\* request and the reply to its own get.
C10_CallsAreIndependent ==
    [][/\ td' = td
       /\ \A c \in DOMAIN pc :
             (pc[c] # "done" /\ pc'[c] = "done") =>
                 result'[c] = AloneResult(req[c], reply[c])
       /\ \A c, d \in DOMAIN pc :
             (c # d /\ CallState(c)' # CallState(c)) =>
                 CallState(d)' = CallState(d)]_vars

\* all calls returned, two of them with different replies and different
\* kinds of result
C10_Witness ==
    /\ \A c \in DOMAIN pc : Returned(c)
    /\ \E c, d \in DOMAIN pc :
          /\ c # d
          /\ reply[c] # reply[d]
          /\ result[c].kind = "DataError" /\ result[d].kind = "Response"

(***************************************************************************)
(* Properties of the time-series decoding (specification SpecTimeSeries).  *)
(***************************************************************************)
ValuesOf(c) == MembersOf(c)["values"].items

RowDecodes(row) == DecodeInner("TimeSeriesQuote", row).ok

\* C11: a time-series body of which every row of `values` decodes gives a
\* Response whose `values` has as many entries as the body's array, entry
\* i being the decode of row i: 10 entries for the ten-row body, the first
\* of 2022-09-20 and the last of 2022-09-07.
C11_ValuesKeepOrderAndLength ==
    \A c \in DOMAIN pc :
        (ObjectBody(c, 200)
            /\ \A i \in DOMAIN ValuesOf(c) : RowDecodes(ValuesOf(c)[i])) =>
            /\ result[c].kind = "Response"
            /\ Len(result[c].val.values) = Len(ValuesOf(c))
            /\ \A i \in DOMAIN ValuesOf(c) :
                  result[c].val.values[i] =
                      DecodeInner("TimeSeriesQuote", ValuesOf(c)[i]).val
            /\ ValuesOf(c) = TestTimeSeriesRows =>
                  /\ Len(result[c].val.values) = 10
                  /\ result[c].val.values[1].datetime =
                        [year |-> 2022, month |-> 9, day |-> 20, hour |-> 0,
                         minute |-> 0, second |-> 0, leap |-> FALSE]
                  /\ result[c].val.values[1].close =
                        [neg |-> FALSE, int |-> 308, frac |-> <<7, 3, 0, 0, 1>>]
                  /\ result[c].val.values[10].datetime =
                        [year |-> 2022, month |-> 9, day |-> 7, hour |-> 0,
                         minute |-> 0, second |-> 0, leap |-> FALSE]

C11_Witness ==
    \E c \in DOMAIN pc :
        /\ ObjectBody(c, 200)
        /\ ValuesOf(c) = TestTimeSeriesRows
        /\ result[c].kind = "Response"
        /\ Len(result[c].val.values) = 10

(***************************************************************************)
(* The statuses send takes as success (specification Spec).                *)
(***************************************************************************)
\* C12: for every status in 200..299 the call returns what it returns for
\* status 200 with the same body, and not the DataError that carries the
\* status.
C12_Every2xxIsSuccess ==
    \A c \in DOMAIN pc :
        (Returned(c) /\ reply[c].ok /\ reply[c].res.status \in 200..299) =>
            /\ result[c] # DataError(Formatted("status {}", reply[c].res.status))
            /\ result[c] = Classify(req[c].endpoint,
                                    [reply[c].res EXCEPT !.status = 200])

====
